---- MODULE Spec2Model ----
(***************************************************************************)
(* Environment-variable validation of the Nigerian tax calculator          *)
(* (src/lib/env.ts): the two validators, the orchestrator validateEnv and   *)
(* the module initialisation that exports env and the three tier flags.     *)
(*                                                                          *)
(* A string value is a sequence of atoms: an atom is one whitespace         *)
(* character or one maximal run of non-whitespace characters.  A message    *)
(* line is a sequence of text fragments (a template literal keeps its       *)
(* fragments apart), and a message is the sequence of its lines, which is   *)
(* what errorParts.join('\n') carries.                                      *)
(***************************************************************************)
EXTENDS Integers, Sequences, FiniteSets, TLC

VARIABLES
    processEnv,     \* the configuration source: a function on the defined names
    sourceAtLoad,   \* history: the configuration source when the module was loaded
    hasWindow,      \* typeof window !== 'undefined' in this execution context
    pc,             \* position of the module initialisation
    clientEnv,      \* validateEnv's local clientEnv
    serverEnv,      \* validateEnv's local serverEnv
    exports,        \* the module's initialised bindings: env and the tier flags
    missing,        \* the failing validator's local missing list
    empty,          \* the failing validator's local empty list
    error,          \* the message lines of the thrown Error, <<>> when none
    reads,          \* history: the names looked up in process.env so far
    runs,           \* history: how often each validator has been started
    layoutPos,      \* the import of app/layout.tsx that is evaluated next
    appReads,       \* history: the configuration reads of the other imported modules
    boundary,       \* EnvErrorBoundary: whether it is mounted, and its state
    screen,         \* what the root layout shows
    banner,         \* componentDidCatch logged ENVIRONMENT CONFIGURATION ERROR
    second          \* the outcome of a second validation pass, if one ran

vars == <<processEnv, sourceAtLoad, hasWindow, pc, clientEnv, serverEnv,
          exports, missing, empty, error, reads, runs,
          layoutPos, appReads, boundary, screen, banner, second>>

\* the state outside the env module
layoutVars == <<layoutPos, appReads>>
uiVars == <<boundary, screen, banner>>

-----------------------------------------------------------------------------
(* Bounds of the model *)

\* at most this many required names deviate from a fully valid configuration
MaxDeviations == 2

-----------------------------------------------------------------------------
(* The fixed name lists *)

requiredClientVars ==
    << "NEXT_PUBLIC_SUPABASE_URL",
       "NEXT_PUBLIC_SUPABASE_ANON_KEY",
       "NEXT_PUBLIC_PLASMIC_PROJECT_ID",
       "NEXT_PUBLIC_PLASMIC_TOKEN",
       "NEXT_PUBLIC_RECAPTCHA_SITE_KEY",
       "NEXT_PUBLIC_PAYSTACK_PUBLIC_KEY",
       "NEXT_PUBLIC_REMITA_MERCHANT_ID",
       "NEXT_PUBLIC_REMITA_SERVICE_TYPE_ID",
       "NEXT_PUBLIC_OPAY_MERCHANT_ID",
       "NEXT_PUBLIC_OPAY_PUBLIC_KEY",
       "NEXT_PUBLIC_APP_ENV",
       "NEXT_PUBLIC_APP_URL" >>

requiredServerVars ==
    << "SUPABASE_SERVICE_ROLE_KEY",
       "RECAPTCHA_SECRET_KEY",
       "PAYSTACK_SECRET_KEY",
       "REMITA_API_KEY",
       "OPAY_SECRET_KEY" >>

Range(s) == { s[i] : i \in DOMAIN s }

ClientNames == Range(requiredClientVars)
ServerNames == Range(requiredServerVars)
AllNames == ClientNames \cup ServerNames

-----------------------------------------------------------------------------
(* Strings *)

\* the whitespace characters String.prototype.trim strips
Whitespace == { " ", "\t" }

RECURSIVE TrimStart(_)
TrimStart(s) ==
    IF s # <<>> /\ Head(s) \in Whitespace THEN TrimStart(Tail(s)) ELSE s

RECURSIVE TrimEnd(_)
TrimEnd(s) ==
    IF s # <<>> /\ s[Len(s)] \in Whitespace
    THEN TrimEnd(SubSeq(s, 1, Len(s) - 1))
    ELSE s

\* value.trim()
Trim(s) == TrimEnd(TrimStart(s))

-----------------------------------------------------------------------------
(* validateClientEnv *)

\* the scan with value === '' in place of value.trim() === ''
RECURSIVE clientLoop_NoTrim(_, _, _, _)
clientLoop_NoTrim(src, i, missingAcc, emptyAcc) ==
    IF i > Len(requiredClientVars)
    THEN [missing |-> missingAcc, empty |-> emptyAcc]
    ELSE LET varName == requiredClientVars[i] IN
         IF varName \notin DOMAIN src
         THEN clientLoop_NoTrim(src, i + 1, Append(missingAcc, varName), emptyAcc)
         ELSE IF src[varName] = <<>>
         THEN clientLoop_NoTrim(src, i + 1, missingAcc, Append(emptyAcc, varName))
         ELSE clientLoop_NoTrim(src, i + 1, missingAcc, emptyAcc)

\* the scan with missing.unshift(varName) in place of missing.push(varName)
RECURSIVE clientLoop_Unshift(_, _, _, _)
clientLoop_Unshift(src, i, missingAcc, emptyAcc) ==
    IF i > Len(requiredClientVars)
    THEN [missing |-> missingAcc, empty |-> emptyAcc]
    ELSE LET varName == requiredClientVars[i] IN
         IF varName \notin DOMAIN src
         THEN clientLoop_Unshift(src, i + 1, << varName >> \o missingAcc, emptyAcc)
         ELSE IF Trim(src[varName]) = <<>>
         THEN clientLoop_Unshift(src, i + 1, missingAcc, Append(emptyAcc, varName))
         ELSE clientLoop_Unshift(src, i + 1, missingAcc, emptyAcc)

\* the scan with the else dropped: if (!value || value.trim() === '') empty.push
RECURSIVE clientLoop_NoElse(_, _, _, _)
clientLoop_NoElse(src, i, missingAcc, emptyAcc) ==
    IF i > Len(requiredClientVars)
    THEN [missing |-> missingAcc, empty |-> emptyAcc]
    ELSE LET varName == requiredClientVars[i] IN
         IF varName \notin DOMAIN src
         THEN clientLoop_NoElse(src, i + 1, Append(missingAcc, varName),
                                Append(emptyAcc, varName))
         ELSE IF Trim(src[varName]) = <<>>
         THEN clientLoop_NoElse(src, i + 1, missingAcc, Append(emptyAcc, varName))
         ELSE clientLoop_NoElse(src, i + 1, missingAcc, emptyAcc)

\* the loop that also rejects a tier outside 'development' | 'staging' | 'production'
RECURSIVE clientLoop_ChecksTier(_, _, _, _)
clientLoop_ChecksTier(src, i, missingAcc, emptyAcc) ==
    IF i > Len(requiredClientVars)
    THEN [missing |-> missingAcc, empty |-> emptyAcc]
    ELSE LET varName == requiredClientVars[i] IN
         IF varName \notin DOMAIN src
         THEN clientLoop_ChecksTier(src, i + 1, Append(missingAcc, varName), emptyAcc)
         ELSE IF Trim(src[varName]) = <<>>
         THEN clientLoop_ChecksTier(src, i + 1, missingAcc, Append(emptyAcc, varName))
         ELSE IF /\ varName = "NEXT_PUBLIC_APP_ENV"
                 /\ src[varName] \notin { << "development" >>, << "staging" >>,
                                          << "production" >> }
         THEN clientLoop_ChecksTier(src, i + 1, missingAcc, Append(emptyAcc, varName))
         ELSE clientLoop_ChecksTier(src, i + 1, missingAcc, emptyAcc)

\* the scan of requiredClientVars, from index i on
RECURSIVE clientLoop(_, _, _, _)
clientLoop(src, i, missingAcc, emptyAcc) ==
    IF i > Len(requiredClientVars)
    THEN [missing |-> missingAcc, empty |-> emptyAcc]
    ELSE LET varName == requiredClientVars[i] IN
         IF varName \notin DOMAIN src
         THEN clientLoop(src, i + 1, Append(missingAcc, varName), emptyAcc)
         ELSE IF Trim(src[varName]) = <<>>
         THEN clientLoop(src, i + 1, missingAcc, Append(emptyAcc, varName))
         ELSE clientLoop(src, i + 1, missingAcc, emptyAcc)

\* names.forEach(varName => errorParts.push(`  - ${varName}`))
Bullets(names) == [ i \in 1..Len(names) |-> << "  - ", names[i] >> ]

CrossMark == "<cross mark> "
WarningSign == "<warning sign>  "
Marker == "Environment Variable Validation Failed"

MissingHeading == << "Missing variables (not defined in .env.local):" >>
EmptyHeading == << "Empty variables (defined but have no value):" >>

\* the message whose empty section iterates the missing list
clientErrorParts_EmptyListsMissing(missingNames, emptyNames) ==
    << << CrossMark, Marker, "!" >>,
       << >>,
       << "Required client-side environment variables are not properly configured." >>,
       << >> >>
    \o (IF Len(missingNames) > 0
        THEN << MissingHeading >> \o Bullets(missingNames) \o << << >> >>
        ELSE << >>)
    \o (IF Len(emptyNames) > 0
        THEN << EmptyHeading >> \o Bullets(missingNames) \o << << >> >>
        ELSE << >>)
    \o << << "How to fix:" >>,
          << "1. Copy .env.example to .env.local:" >>,
          << "   cp .env.example .env.local" >>,
          << >>,
          << "2. Fill in the missing/empty values in .env.local" >>,
          << >>,
          << "3. Restart your development server" >>,
          << >>,
          << "See .env.example for guidance on where to get these values." >> >>

\* the lines of the message validateClientEnv throws
clientErrorParts(missingNames, emptyNames) ==
    << << CrossMark, Marker, "!" >>,
       << >>,
       << "Required client-side environment variables are not properly configured." >>,
       << >> >>
    \o (IF Len(missingNames) > 0
        THEN << MissingHeading >> \o Bullets(missingNames) \o << << >> >>
        ELSE << >>)
    \o (IF Len(emptyNames) > 0
        THEN << EmptyHeading >> \o Bullets(emptyNames) \o << << >> >>
        ELSE << >>)
    \o << << "How to fix:" >>,
          << "1. Copy .env.example to .env.local:" >>,
          << "   cp .env.example .env.local" >>,
          << >>,
          << "2. Fill in the missing/empty values in .env.local" >>,
          << >>,
          << "3. Restart your development server" >>,
          << >>,
          << "See .env.example for guidance on where to get these values." >> >>

\* the reduce storing process.env[key].trim()
clientReduce_Trimmed(src) == [ key \in ClientNames |-> Trim(src[key]) ]

\* requiredClientVars.reduce((acc, key) => { acc[key] = process.env[key]; ... }, {})
clientReduce(src) == [ key \in ClientNames |-> src[key] ]

validateClientEnv(src) ==
    LET r == clientLoop(src, 1, << >>, << >>) IN
    IF Len(r.missing) > 0 \/ Len(r.empty) > 0
    THEN [ threw |-> TRUE, missing |-> r.missing, empty |-> r.empty,
           message |-> clientErrorParts(r.missing, r.empty),
           value |-> << >>, reads |-> ClientNames ]
    ELSE [ threw |-> FALSE, missing |-> r.missing, empty |-> r.empty,
           message |-> << >>,
           value |-> clientReduce(src), reads |-> ClientNames ]

-----------------------------------------------------------------------------
(* validateServerEnv *)

\* the secret scan with value === '' in place of value.trim() === ''
RECURSIVE serverLoop_NoTrim(_, _, _, _)
serverLoop_NoTrim(src, i, missingAcc, emptyAcc) ==
    IF i > Len(requiredServerVars)
    THEN [missing |-> missingAcc, empty |-> emptyAcc]
    ELSE LET varName == requiredServerVars[i] IN
         IF varName \notin DOMAIN src
         THEN serverLoop_NoTrim(src, i + 1, Append(missingAcc, varName), emptyAcc)
         ELSE IF src[varName] = <<>>
         THEN serverLoop_NoTrim(src, i + 1, missingAcc, Append(emptyAcc, varName))
         ELSE serverLoop_NoTrim(src, i + 1, missingAcc, emptyAcc)

\* the scan of requiredServerVars, from index i on
RECURSIVE serverLoop(_, _, _, _)
serverLoop(src, i, missingAcc, emptyAcc) ==
    IF i > Len(requiredServerVars)
    THEN [missing |-> missingAcc, empty |-> emptyAcc]
    ELSE LET varName == requiredServerVars[i] IN
         IF varName \notin DOMAIN src
         THEN serverLoop(src, i + 1, Append(missingAcc, varName), emptyAcc)
         ELSE IF Trim(src[varName]) = <<>>
         THEN serverLoop(src, i + 1, missingAcc, Append(emptyAcc, varName))
         ELSE serverLoop(src, i + 1, missingAcc, emptyAcc)

\* the secret validator's message under a header that drops the marker
serverErrorParts_OtherHeader(missingNames, emptyNames) ==
    << << CrossMark, "Server configuration is incomplete", "!" >>, << >> >>
    \o (IF Len(missingNames) > 0
        THEN << MissingHeading >> \o Bullets(missingNames) \o << << >> >>
        ELSE << >>)
    \o (IF Len(emptyNames) > 0
        THEN << EmptyHeading >> \o Bullets(emptyNames) \o << << >> >>
        ELSE << >>)
    \o << << "How to fix:" >> >>

\* the secret validator's message without the reminder under step 2
serverErrorParts_NoReminder(missingNames, emptyNames) ==
    << << CrossMark, "Server ", Marker, "!" >>,
       << >>,
       << "Required server-side (secret) environment variables are not properly configured." >>,
       << >>,
       << WarningSign, "WARNING: These variables should NEVER be prefixed with NEXT_PUBLIC_" >>,
       << "   They contain sensitive data and must remain server-side only!" >>,
       << >> >>
    \o (IF Len(missingNames) > 0
        THEN << MissingHeading >> \o Bullets(missingNames) \o << << >> >>
        ELSE << >>)
    \o (IF Len(emptyNames) > 0
        THEN << EmptyHeading >> \o Bullets(emptyNames) \o << << >> >>
        ELSE << >>)
    \o << << "How to fix:" >>,
          << "1. Check your .env.local file" >>,
          << >>,
          << "2. Fill in the missing/empty SECRET variables" >>,
          << >>,
          << "3. Restart your development server" >>,
          << >>,
          << "See .env.example for guidance on where to get these values." >> >>

\* the lines of the message validateServerEnv throws
serverErrorParts(missingNames, emptyNames) ==
    << << CrossMark, "Server ", Marker, "!" >>,
       << >>,
       << "Required server-side (secret) environment variables are not properly configured." >>,
       << >>,
       << WarningSign, "WARNING: These variables should NEVER be prefixed with NEXT_PUBLIC_" >>,
       << "   They contain sensitive data and must remain server-side only!" >>,
       << >> >>
    \o (IF Len(missingNames) > 0
        THEN << MissingHeading >> \o Bullets(missingNames) \o << << >> >>
        ELSE << >>)
    \o (IF Len(emptyNames) > 0
        THEN << EmptyHeading >> \o Bullets(emptyNames) \o << << >> >>
        ELSE << >>)
    \o << << "How to fix:" >>,
          << "1. Check your .env.local file" >>,
          << >>,
          << "2. Fill in the missing/empty SECRET variables" >>,
          << "   (Do NOT add NEXT_PUBLIC_ prefix to these!)" >>,
          << >>,
          << "3. Restart your development server" >>,
          << >>,
          << "See .env.example for guidance on where to get these values." >> >>

\* requiredServerVars.reduce((acc, key) => { acc[key] = process.env[key]; ... }, {})
serverReduce(src) == [ key \in ServerNames |-> src[key] ]

\* the validator without its early return
skipsServerValidation_Never(window) == FALSE

\* if (typeof window !== 'undefined') return {}
skipsServerValidation(window) == window

validateServerEnv(src, window) ==
    IF skipsServerValidation(window)
    THEN [ threw |-> FALSE, missing |-> << >>, empty |-> << >>,
           message |-> << >>, value |-> << >>, reads |-> {} ]
    ELSE LET r == serverLoop(src, 1, << >>, << >>) IN
         IF Len(r.missing) > 0 \/ Len(r.empty) > 0
         THEN [ threw |-> TRUE, missing |-> r.missing, empty |-> r.empty,
                message |-> serverErrorParts(r.missing, r.empty),
                value |-> << >>, reads |-> ServerNames ]
         ELSE [ threw |-> FALSE, missing |-> r.missing, empty |-> r.empty,
                message |-> << >>,
                value |-> serverReduce(src), reads |-> ServerNames ]

-----------------------------------------------------------------------------
(* validateEnv and the module's exports *)

\* the merge that spreads clientEnv twice: { ...clientEnv, ...clientEnv }
Merge_ClientTwice(a, b) == a

\* { ...clientEnv, ...serverEnv }
Merge(a, b) ==
    [ k \in (DOMAIN a) \cup (DOMAIN b) |-> IF k \in DOMAIN b THEN b[k] ELSE a[k] ]

\* the exports whose staging flag repeats the production comparison
moduleExports_StagingCopiesProduction(client, server) ==
    LET merged == Merge(client, server) IN
    [ env |-> merged,
      isProduction |-> merged["NEXT_PUBLIC_APP_ENV"] = << "production" >>,
      isDevelopment |-> merged["NEXT_PUBLIC_APP_ENV"] = << "development" >>,
      isStaging |-> merged["NEXT_PUBLIC_APP_ENV"] = << "production" >> ]

\* the exports whose flags follow NODE_ENV of a development server, not env
moduleExports_TierFromNodeEnv(client, server) ==
    LET merged == Merge(client, server)
        nodeEnv == << "development" >>
    IN  [ env |-> merged,
          isProduction |-> nodeEnv = << "production" >>,
          isDevelopment |-> nodeEnv = << "development" >>,
          isStaging |-> nodeEnv = << "staging" >> ]

\* export const env = validateEnv(); and the three tier flags computed from it
moduleExports(client, server) ==
    LET merged == Merge(client, server) IN
    [ env |-> merged,
      isProduction |-> merged["NEXT_PUBLIC_APP_ENV"] = << "production" >>,
      isDevelopment |-> merged["NEXT_PUBLIC_APP_ENV"] = << "development" >>,
      isStaging |-> merged["NEXT_PUBLIC_APP_ENV"] = << "staging" >> ]

\* the predicate with its test inverted: typeof window !== 'undefined'
isServer_Inverted == hasWindow

\* export function isServer()
isServer == ~hasWindow

\* validateEnv as one call: public validation, then secret validation, then the merge
validateEnv(src, window) ==
    LET c == validateClientEnv(src) IN
    IF c.threw
    THEN [ threw |-> TRUE, missing |-> c.missing, empty |-> c.empty,
           message |-> c.message, value |-> << >> ]
    ELSE LET sv == validateServerEnv(src, window) IN
         IF sv.threw
         THEN [ threw |-> TRUE, missing |-> sv.missing, empty |-> sv.empty,
                message |-> sv.message, value |-> << >> ]
         ELSE [ threw |-> FALSE, missing |-> << >>, empty |-> << >>,
                message |-> << >>, value |-> Merge(c.value, sv.value) ]

-----------------------------------------------------------------------------
(* app/layout.tsx, lib/plasmic-init.ts and the error boundary *)

\* the modules of this repository that app/layout.tsx imports, in import order
layoutImports == << "plasmic-init", "EnvErrorBoundary", "env" >>

\* the module the layout is importing, "none" once all imports are evaluated
importing ==
    IF layoutPos <= Len(layoutImports) THEN layoutImports[layoutPos] ELSE "none"

\* where the layout imports the env module
EnvImportPos == CHOOSE i \in DOMAIN layoutImports : layoutImports[i] = "env"

\* the process.env names a module reads when it is evaluated
ConfigReadsOf(module) ==
    IF module = "plasmic-init"
    THEN { "NEXT_PUBLIC_PLASMIC_PROJECT_ID", "NEXT_PUBLIC_PLASMIC_TOKEN" }
    ELSE { }

\* the reads recorded when a module is evaluated while the env module is in envState
ReadsOfImport(module, envState) ==
    { [ module |-> module, name |-> n, envState |-> envState ] :
        n \in ConfigReadsOf(module) }

\* message.includes(searchString): the occurrences of the marker in the
\* messages of the model are whole fragments of a line
includes(lines, searchString) ==
    \E i \in DOMAIN lines : \E j \in DOMAIN lines[i] : lines[i][j] = searchString

\* the screen EnvErrorDisplay renders for an error
EnvErrorDisplay(err) ==
    IF ~includes(err, Marker)
    THEN "Application Error"
    ELSE "Environment Configuration Required"

\* static getDerivedStateFromError(error)
getDerivedStateFromError(err) == [ hasError |-> TRUE, error |-> err ]

\* componentDidCatch: whether the configuration banner is logged
componentDidCatch(err) == includes(err, Marker)

\* EnvErrorBoundary.render(); a null error is the empty message
render(state) ==
    IF state.hasError /\ state.error # << >>
    THEN EnvErrorDisplay(state.error)
    ELSE "children"

\* the errors a descendant of the boundary throws while rendering
RenderErrors ==
    { << << "Cannot read properties of undefined" >> >>,
      << << "Validation Failed", "!" >>, << >>, << "Environment Variable" >> >>,
      clientErrorParts(<< "NEXT_PUBLIC_SUPABASE_URL" >>, << >>),
      serverErrorParts(<< "PAYSTACK_SECRET_KEY" >>, << "OPAY_SECRET_KEY" >>) }

-----------------------------------------------------------------------------
(* scripts/test-env-validation.mjs: the demo of the error message *)

\* the demo with the bullets of the script's summary lines: `   - ${v}`
demoErrorParts_SummaryBullets(missingVars, emptyVars) ==
    << << CrossMark, "Environment Variable Validation Failed", "!" >>,
       << >>,
       << "Required client-side environment variables are not properly configured." >>,
       << >> >>
    \o (IF Len(missingVars) > 0
        THEN << << "Missing variables (not defined in .env.local):" >> >>
             \o [ i \in 1..Len(missingVars) |-> << "   - ", missingVars[i] >> ]
             \o << << >> >>
        ELSE << >>)
    \o (IF Len(emptyVars) > 0
        THEN << << "Empty variables (defined but have no value):" >> >>
             \o [ i \in 1..Len(emptyVars) |-> << "   - ", emptyVars[i] >> ]
             \o << << >> >>
        ELSE << >>)
    \o << << "How to fix:" >>,
          << "1. Copy .env.example to .env.local:" >>,
          << "   cp .env.example .env.local" >>,
          << >>,
          << "2. Fill in the missing/empty values in .env.local" >>,
          << >>,
          << "3. Restart your development server" >>,
          << >>,
          << "See .env.example for guidance on where to get these values." >> >>

\* the lines the script joins and prints as the demo message
demoErrorParts(missingVars, emptyVars) ==
    << << CrossMark, "Environment Variable Validation Failed", "!" >>,
       << >>,
       << "Required client-side environment variables are not properly configured." >>,
       << >> >>
    \o (IF Len(missingVars) > 0
        THEN << << "Missing variables (not defined in .env.local):" >> >>
             \o [ i \in 1..Len(missingVars) |-> << "  - ", missingVars[i] >> ]
             \o << << >> >>
        ELSE << >>)
    \o (IF Len(emptyVars) > 0
        THEN << << "Empty variables (defined but have no value):" >> >>
             \o [ i \in 1..Len(emptyVars) |-> << "  - ", emptyVars[i] >> ]
             \o << << >> >>
        ELSE << >>)
    \o << << "How to fix:" >>,
          << "1. Copy .env.example to .env.local:" >>,
          << "   cp .env.example .env.local" >>,
          << >>,
          << "2. Fill in the missing/empty values in .env.local" >>,
          << >>,
          << "3. Restart your development server" >>,
          << >>,
          << "See .env.example for guidance on where to get these values." >> >>

\* if (missingVars.length > 0 || emptyVars.length > 0): the demo is printed
\* only then; the empty message stands for nothing printed
demoMessage(missingVars, emptyVars) ==
    IF Len(missingVars) > 0 \/ Len(emptyVars) > 0
    THEN demoErrorParts(missingVars, emptyVars)
    ELSE << >>

-----------------------------------------------------------------------------
(* The configurations the model starts from *)

\* the names a configuration defines before it deviates: all of them, or the
\* public ones alone, which is what a browser bundle carries
BaseNames == { AllNames, ClientNames }

DefaultValue(n) ==
    IF n = "NEXT_PUBLIC_APP_ENV" THEN << "development" >> ELSE << "v" >>

\* the values a deviating name may hold when it is defined
SampleValues(n) ==
    IF n = "NEXT_PUBLIC_APP_ENV"
    THEN { << >>, << " ", "\t" >>, << "production" >>, << "staging" >>,
           << "test" >>, << " ", "production", "\t" >> }
    ELSE { << >>, << " ", "\t" >>, << " ", "v", "\t" >> }

AllSampleValues == UNION { SampleValues(n) : n \in AllNames }

DeviationSets == { D \in SUBSET AllNames : Cardinality(D) <= MaxDeviations }

\* the names and values a later change of the configuration source touches
ChangedNames == { "NEXT_PUBLIC_APP_ENV" }
ChangedValues(n) == { << "staging" >> }

-----------------------------------------------------------------------------
(* Module initialisation *)

\* the process before anything of the application is evaluated
InitProcess ==
    /\ \E B \in BaseNames : \E D \in DeviationSets : \E A \in SUBSET D :
       \E f \in [ D \ A -> AllSampleValues ] :
        /\ \A n \in D \ A : f[n] \in SampleValues(n)
        /\ processEnv = [ n \in (B \cup D) \ A |->
                            IF n \in D THEN f[n] ELSE DefaultValue(n) ]
        /\ hasWindow \in (IF B = AllNames THEN BOOLEAN ELSE { TRUE })
    /\ sourceAtLoad = processEnv
    /\ pc = "uninitialized"
    /\ clientEnv = << >>
    /\ serverEnv = << >>
    /\ exports = << >>
    /\ missing = << >>
    /\ empty = << >>
    /\ error = << >>
    /\ reads = {}
    /\ runs = [ client |-> 0, server |-> 0 ]
    /\ boundary = [ mounted |-> FALSE, hasError |-> FALSE, error |-> << >> ]
    /\ screen = "none"
    /\ banner = FALSE
    /\ second = [ done |-> FALSE ]

\* app/layout.tsx starts to evaluate its imports
InitLayout ==
    /\ InitProcess
    /\ layoutPos = 1
    /\ appReads = {}

\* the env module starts to evaluate: the imports ahead of it are done
Init ==
    /\ InitProcess
    /\ layoutPos = EnvImportPos
    /\ appReads = UNION { ReadsOfImport(layoutImports[i], "uninitialized") :
                            i \in 1..(EnvImportPos - 1) }

\* import { PLASMIC } from '@/lib/plasmic-init'; import { EnvErrorBoundary } ...
ImportAppModule ==
    /\ importing \notin { "env", "none" }
    /\ appReads' = appReads \cup ReadsOfImport(importing, pc)
    /\ layoutPos' = layoutPos + 1
    /\ UNCHANGED <<processEnv, sourceAtLoad, hasWindow, pc, clientEnv, serverEnv,
                   exports, missing, empty, error, reads, runs, uiVars, second>>

\* public validation that defaults each missing name to '' in process.env
CallValidateClientEnv_WritesDefaults ==
    /\ importing = "env"
    /\ pc = "uninitialized"
    /\ LET r == validateClientEnv(processEnv) IN
        /\ reads' = reads \cup r.reads
        /\ runs' = [ runs EXCEPT !.client = @ + 1 ]
        /\ processEnv' = [ k \in (DOMAIN processEnv) \cup Range(r.missing) |->
                             IF k \in DOMAIN processEnv THEN processEnv[k] ELSE << >> ]
        /\ IF r.threw
           THEN /\ pc' = "fatal"
                /\ error' = r.message
                /\ missing' = r.missing
                /\ empty' = r.empty
                /\ UNCHANGED clientEnv
           ELSE /\ pc' = "clientValidated"
                /\ clientEnv' = r.value
                /\ UNCHANGED <<error, missing, empty>>
    /\ UNCHANGED <<sourceAtLoad, hasWindow, serverEnv, exports,
                   layoutVars, uiVars, second>>

\* const clientEnv = validateClientEnv();
CallValidateClientEnv ==
    /\ importing = "env"
    /\ pc = "uninitialized"
    /\ LET r == validateClientEnv(processEnv) IN
        /\ reads' = reads \cup r.reads
        /\ runs' = [ runs EXCEPT !.client = @ + 1 ]
        /\ IF r.threw
           THEN /\ pc' = "fatal"
                /\ error' = r.message
                /\ missing' = r.missing
                /\ empty' = r.empty
                /\ UNCHANGED clientEnv
           ELSE /\ pc' = "clientValidated"
                /\ clientEnv' = r.value
                /\ UNCHANGED <<error, missing, empty>>
    /\ UNCHANGED <<processEnv, sourceAtLoad, hasWindow, serverEnv, exports,
                   layoutVars, uiVars, second>>

\* validateEnv calling validateServerEnv ahead of validateClientEnv
CallValidateServerEnv_BeforeClient ==
    /\ importing = "env"
    /\ pc = "uninitialized"
    /\ runs.server = 0
    /\ LET r == validateServerEnv(processEnv, hasWindow) IN
        /\ reads' = reads \cup r.reads
        /\ runs' = [ runs EXCEPT !.server = @ + 1 ]
        /\ IF r.threw
           THEN /\ pc' = "fatal"
                /\ error' = r.message
                /\ missing' = r.missing
                /\ empty' = r.empty
                /\ UNCHANGED serverEnv
           ELSE /\ pc' = "uninitialized"
                /\ serverEnv' = r.value
                /\ UNCHANGED <<error, missing, empty>>
    /\ UNCHANGED <<processEnv, sourceAtLoad, hasWindow, clientEnv, exports,
                   layoutVars, uiVars, second>>

\* a failing secret validation caught and the public part exported all the same
CallValidateServerEnv_PartialExport ==
    /\ pc = "clientValidated"
    /\ LET r == validateServerEnv(processEnv, hasWindow) IN
        /\ reads' = reads \cup r.reads
        /\ runs' = [ runs EXCEPT !.server = @ + 1 ]
        /\ IF r.threw
           THEN /\ pc' = "fatal"
                /\ error' = r.message
                /\ missing' = r.missing
                /\ empty' = r.empty
                /\ exports' = [ env |-> clientEnv ]
                /\ UNCHANGED serverEnv
           ELSE /\ pc' = "serverValidated"
                /\ serverEnv' = r.value
                /\ UNCHANGED <<error, missing, empty, exports>>
    /\ UNCHANGED <<processEnv, sourceAtLoad, hasWindow, clientEnv,
                   layoutVars, uiVars, second>>

\* const serverEnv = validateServerEnv();
CallValidateServerEnv ==
    /\ pc = "clientValidated"
    /\ LET r == validateServerEnv(processEnv, hasWindow) IN
        /\ reads' = reads \cup r.reads
        /\ runs' = [ runs EXCEPT !.server = @ + 1 ]
        /\ IF r.threw
           THEN /\ pc' = "fatal"
                /\ error' = r.message
                /\ missing' = r.missing
                /\ empty' = r.empty
                /\ UNCHANGED serverEnv
           ELSE /\ pc' = "serverValidated"
                /\ serverEnv' = r.value
                /\ UNCHANGED <<error, missing, empty>>
    /\ UNCHANGED <<processEnv, sourceAtLoad, hasWindow, clientEnv, exports,
                   layoutVars, uiVars, second>>

\* return { ...clientEnv, ...serverEnv }; the exports are bound and the
\* layout's import of the module is complete
ExportEnv ==
    /\ pc = "serverValidated"
    /\ exports' = moduleExports(clientEnv, serverEnv)
    /\ pc' = "validated"
    /\ layoutPos' = layoutPos + 1
    /\ UNCHANGED <<processEnv, sourceAtLoad, hasWindow, clientEnv, serverEnv,
                   missing, empty, error, reads, runs, appReads, uiVars, second>>

\* RootLayout renders: the boundary is constructed and renders its children
RenderRootLayout ==
    /\ importing = "none"
    /\ ~boundary.mounted
    /\ boundary' = [ mounted |-> TRUE, hasError |-> FALSE, error |-> << >> ]
    /\ screen' = render(boundary')
    /\ UNCHANGED <<processEnv, sourceAtLoad, hasWindow, pc, clientEnv, serverEnv,
                   exports, missing, empty, error, reads, runs, layoutVars,
                   banner, second>>

\* a descendant of the boundary throws while rendering: getDerivedStateFromError,
\* componentDidCatch and the render that follows
CatchRenderError ==
    /\ boundary.mounted
    /\ screen = "children"
    /\ \E err \in RenderErrors :
        /\ boundary' = [ mounted |-> TRUE ] @@ getDerivedStateFromError(err)
        /\ banner' = componentDidCatch(err)
        /\ screen' = render(boundary')
    /\ UNCHANGED <<processEnv, sourceAtLoad, hasWindow, pc, clientEnv, serverEnv,
                   exports, missing, empty, error, reads, runs, layoutVars, second>>

\* another worker evaluates the module on its own: one whole validateEnv() pass
SecondPass ==
    /\ ~second.done
    /\ LET r == validateEnv(processEnv, hasWindow) IN
        second' = [ done |-> TRUE, threw |-> r.threw, missing |-> r.missing,
                    empty |-> r.empty, message |-> r.message, value |-> r.value ]
    /\ UNCHANGED <<processEnv, sourceAtLoad, hasWindow, pc, clientEnv, serverEnv,
                   exports, missing, empty, error, reads, runs, layoutVars, uiVars>>

\* a re-render that clears the captured error, as a reset in componentDidUpdate would
RerenderBoundary_ResetsError ==
    /\ boundary.mounted
    /\ boundary' = [ mounted |-> TRUE, hasError |-> FALSE, error |-> << >> ]
    /\ screen' = render(boundary')
    /\ UNCHANGED <<processEnv, sourceAtLoad, hasWindow, pc, clientEnv, serverEnv,
                   exports, missing, empty, error, reads, runs, layoutVars,
                   banner, second>>

\* React renders the mounted boundary again: render() from the state it holds
RerenderBoundary ==
    /\ boundary.mounted
    /\ screen' = render(boundary)
    /\ UNCHANGED <<processEnv, sourceAtLoad, hasWindow, pc, clientEnv, serverEnv,
                   exports, missing, empty, error, reads, runs, layoutVars,
                   boundary, banner, second>>

\* the Retry button of the configuration screen: window.location.reload(); the
\* page and its modules are loaded anew over the same process environment
ReloadPage ==
    /\ hasWindow
    /\ boundary.hasError
    /\ screen = "Environment Configuration Required"
    /\ sourceAtLoad' = processEnv
    /\ pc' = "uninitialized"
    /\ clientEnv' = << >>
    /\ serverEnv' = << >>
    /\ exports' = << >>
    /\ missing' = << >>
    /\ empty' = << >>
    /\ error' = << >>
    /\ reads' = {}
    /\ runs' = [ client |-> 0, server |-> 0 ]
    /\ layoutPos' = 1
    /\ appReads' = {}
    /\ boundary' = [ mounted |-> FALSE, hasError |-> FALSE, error |-> << >> ]
    /\ screen' = "none"
    /\ banner' = FALSE
    /\ UNCHANGED <<processEnv, hasWindow, second>>

\* the source changes and env is a live view of it instead of a value built once
ChangeSource_AliasedEnv ==
    /\ pc = "validated"
    /\ \E n \in ChangedNames :
        \/ /\ n \in DOMAIN processEnv
           /\ processEnv' = [ k \in (DOMAIN processEnv) \ { n } |-> processEnv[k] ]
        \/ \E v \in ChangedValues(n) :
            /\ IF n \in DOMAIN processEnv THEN processEnv[n] # v ELSE TRUE
            /\ processEnv' = [ k \in (DOMAIN processEnv) \cup { n } |->
                                 IF k = n THEN v ELSE processEnv[k] ]
    /\ exports' = [ exports EXCEPT !.env =
                      [ k \in (DOMAIN @) \cap (DOMAIN processEnv') |-> processEnv'[k] ] ]
    /\ UNCHANGED <<sourceAtLoad, hasWindow, pc, clientEnv, serverEnv,
                   missing, empty, error, reads, runs, layoutVars, uiVars, second>>

\* the process environment changes after env has been built
ChangeSource ==
    /\ pc = "validated"
    /\ \E n \in ChangedNames :
        \/ /\ n \in DOMAIN processEnv
           /\ processEnv' = [ k \in (DOMAIN processEnv) \ { n } |-> processEnv[k] ]
        \/ \E v \in ChangedValues(n) :
            /\ IF n \in DOMAIN processEnv THEN processEnv[n] # v ELSE TRUE
            /\ processEnv' = [ k \in (DOMAIN processEnv) \cup { n } |->
                                 IF k = n THEN v ELSE processEnv[k] ]
    /\ UNCHANGED <<sourceAtLoad, hasWindow, pc, clientEnv, serverEnv, exports,
                   missing, empty, error, reads, runs, layoutVars, uiVars, second>>

\* the env module and its configuration source
Next ==
    \/ CallValidateClientEnv
    \/ CallValidateServerEnv
    \/ ExportEnv
    \/ ChangeSource

Spec == Init /\ [][Next]_vars

\* the root layout: its imports, then its render
NextLayout ==
    \/ ImportAppModule
    \/ CallValidateClientEnv
    \/ CallValidateServerEnv
    \/ ExportEnv
    \/ RenderRootLayout
    \/ CatchRenderError

SpecLayout == InitLayout /\ [][NextLayout]_vars

\* the root layout with the life of its error boundary: renders, captures, reloads
NextBoundary ==
    \/ ImportAppModule
    \/ CallValidateClientEnv
    \/ CallValidateServerEnv
    \/ ExportEnv
    \/ RenderRootLayout
    \/ CatchRenderError
    \/ RerenderBoundary
    \/ ReloadPage

SpecBoundary == InitLayout /\ [][NextBoundary]_vars

\* two validation passes over one unchanging configuration source
NextPasses ==
    \/ CallValidateClientEnv
    \/ CallValidateServerEnv
    \/ ExportEnv
    \/ SecondPass

SpecPasses == Init /\ [][NextPasses]_vars

-----------------------------------------------------------------------------
(* What the claims speak of *)

\* the module's env binding has been initialised
envDefined == "env" \in DOMAIN exports

\* a string with no character other than whitespace
IsBlank(v) == \A i \in DOMAIN v : v[i] \in Whitespace

\* the names of a list that the source does not define, in the list's order
AbsentIn(src, names) ==
    LET Test(n) == n \notin DOMAIN src IN SelectSeq(names, Test)

\* the names of a list that the source defines with a blank value, in the list's order
BlankIn(src, names) ==
    LET Test(n) == n \in DOMAIN src /\ IsBlank(src[n]) IN SelectSeq(names, Test)

\* the names secret validation covers in this execution context
ValidatedNames == ClientNames \cup (IF hasWindow THEN {} ELSE ServerNames)

-----------------------------------------------------------------------------
(* C1 *)

\* C1 as stated: whenever env exists, all 17 required names are keys of it
\* with non-blank values, in every execution context.
C1_AllSeventeenPresent ==
    envDefined =>
        \A n \in AllNames : n \in DOMAIN exports.env /\ ~IsBlank(exports.env[n])

\* C1 amended: whenever env exists, every required public name is a key of it
\* with a non-blank value; where secrets are reachable (no window global) every
\* secret name is too, and where they are not, env holds no secret name. So env
\* holds all 12 public names or all 17 names, never another part of them.
C1_AllOrNothing ==
    envDefined =>
        /\ \A n \in ClientNames :
              n \in DOMAIN exports.env /\ ~IsBlank(exports.env[n])
        /\ IF hasWindow
           THEN DOMAIN exports.env \cap ServerNames = {}
           ELSE \A n \in ServerNames :
                   n \in DOMAIN exports.env /\ ~IsBlank(exports.env[n])

\* env exists in a browser-like context although the source lacks a secret
C1_Witness ==
    /\ envDefined
    /\ hasWindow
    /\ \E n \in ServerNames : n \notin DOMAIN sourceAtLoad

-----------------------------------------------------------------------------
(* C2 *)

\* C2 as stated: after a successful initialisation every required name that the
\* source defines with a non-blank value is bound in env to the source's string.
C2_EveryNameBound ==
    envDefined =>
        \A n \in AllNames :
            (n \in DOMAIN sourceAtLoad /\ ~IsBlank(sourceAtLoad[n]))
                => (n \in DOMAIN exports.env /\ exports.env[n] = sourceAtLoad[n])

\* C2 amended: after a successful initialisation every required public name, and
\* where secrets are reachable every required secret name, that the source
\* defines with a non-blank value is bound in env to exactly the source's string,
\* surrounding whitespace included.
C2_ExactValue ==
    envDefined =>
        \A n \in ValidatedNames :
            (n \in DOMAIN sourceAtLoad /\ ~IsBlank(sourceAtLoad[n]))
                => (n \in DOMAIN exports.env /\ exports.env[n] = sourceAtLoad[n])

\* a public and a secret value with whitespace around them were accepted and stored
C2_Witness ==
    /\ envDefined
    /\ ~hasWindow
    /\ \E n \in ClientNames : exports.env[n] = << " ", "v", "\t" >>
    /\ \E n \in ServerNames : exports.env[n] = << " ", "v", "\t" >>

-----------------------------------------------------------------------------
(* C3 *)

\* C3: once validateServerEnv has been invoked where a window global exists, it
\* has returned an empty mapping, raised nothing and read no secret name from
\* the source, and env never has a secret name as a key in that context.
C3_SkippedInBrowser ==
    (hasWindow /\ runs.server > 0) =>
        /\ DOMAIN serverEnv = {}
        /\ pc # "fatal"
        /\ error = << >>
        /\ reads \cap ServerNames = {}
        /\ (envDefined => DOMAIN exports.env \cap ServerNames = {})

\* the validator was invoked in a browser-like context over a source that lacks
\* one secret and defines another one blank
C3_Witness ==
    /\ hasWindow
    /\ runs.server > 0
    /\ \E n \in ServerNames : n \notin DOMAIN sourceAtLoad
    /\ \E n \in ServerNames : n \in DOMAIN sourceAtLoad /\ IsBlank(sourceAtLoad[n])

-----------------------------------------------------------------------------
(* C4 *)

\* C4: when a required public name is absent from the source, initialisation
\* fails and the missing list is the absent required public names, each once,
\* in the order of requiredClientVars.
C4_MissingList ==
    (runs.client > 0 /\ AbsentIn(sourceAtLoad, requiredClientVars) # << >>) =>
        /\ pc = "fatal"
        /\ ~envDefined
        /\ missing = AbsentIn(sourceAtLoad, requiredClientVars)

\* initialisation failed with two public names missing
C4_Witness ==
    /\ pc = "fatal"
    /\ missing = << "NEXT_PUBLIC_SUPABASE_URL", "NEXT_PUBLIC_APP_URL" >>

-----------------------------------------------------------------------------
(* C5 *)

\* C5: when a required public name is defined blank, initialisation fails and
\* the empty list is exactly the blank required public names; the missing and
\* the empty list never share a name, and a name with a non-blank value is in
\* neither.
C5_EmptyList ==
    /\ (runs.client > 0 /\ BlankIn(sourceAtLoad, requiredClientVars) # << >>) =>
          /\ pc = "fatal"
          /\ ~envDefined
          /\ empty = BlankIn(sourceAtLoad, requiredClientVars)
          /\ \A n \in Range(empty) : n \notin Range(missing)
    /\ Range(missing) \cap Range(empty) = {}
    /\ \A n \in AllNames :
          (n \in DOMAIN sourceAtLoad /\ ~IsBlank(sourceAtLoad[n]))
              => n \notin Range(missing) \cup Range(empty)

\* initialisation failed over an all-whitespace value next to a missing name
C5_Witness ==
    /\ pc = "fatal"
    /\ empty = << "NEXT_PUBLIC_PAYSTACK_PUBLIC_KEY" >>
    /\ sourceAtLoad["NEXT_PUBLIC_PAYSTACK_PUBLIC_KEY"] = << " ", "\t" >>
    /\ missing = << "NEXT_PUBLIC_SUPABASE_ANON_KEY" >>

-----------------------------------------------------------------------------
(* C6 *)

\* a line `  - ${varName}`
IsBullet(line) == Len(line) = 2 /\ line[1] = "  - "

\* the names of the bullet lines that start at line i
RECURSIVE BulletRun(_, _)
BulletRun(lines, i) ==
    IF i <= Len(lines) /\ IsBullet(lines[i])
    THEN << lines[i][2] >> \o BulletRun(lines, i + 1)
    ELSE << >>

\* where a heading occurs in a message
HeadingAt(lines, heading) == { i \in DOMAIN lines : lines[i] = heading }

\* the names a message lists under a heading
SectionNames(lines, heading) ==
    LET at == HeadingAt(lines, heading) IN
    IF at = {} THEN << >>
    ELSE BulletRun(lines, (CHOOSE i \in at : \A j \in at : i <= j) + 1)

\* C6: the message of a failed validator has a "Missing variables" section iff
\* its missing list is non-empty and an "Empty variables" section iff its empty
\* list is non-empty, each section once and listing exactly the names of its
\* own list, and no other line of the message lists a name.
C6_MessageSections ==
    pc = "fatal" =>
        /\ error # << >>
        /\ Cardinality(HeadingAt(error, MissingHeading)) = (IF missing # << >> THEN 1 ELSE 0)
        /\ Cardinality(HeadingAt(error, EmptyHeading)) = (IF empty # << >> THEN 1 ELSE 0)
        /\ SectionNames(error, MissingHeading) = missing
        /\ SectionNames(error, EmptyHeading) = empty
        /\ Cardinality({ i \in DOMAIN error : IsBullet(error[i]) })
              = Len(missing) + Len(empty)

\* the source omits NEXT_PUBLIC_SUPABASE_URL and sets NEXT_PUBLIC_PLASMIC_TOKEN=""
C6_Witness ==
    /\ pc = "fatal"
    /\ "NEXT_PUBLIC_SUPABASE_URL" \notin DOMAIN sourceAtLoad
    /\ "NEXT_PUBLIC_PLASMIC_TOKEN" \in DOMAIN sourceAtLoad
    /\ sourceAtLoad["NEXT_PUBLIC_PLASMIC_TOKEN"] = << >>
    /\ missing = << "NEXT_PUBLIC_SUPABASE_URL" >>
    /\ empty = << "NEXT_PUBLIC_PLASMIC_TOKEN" >>
    /\ HeadingAt(error, MissingHeading) # {}
    /\ HeadingAt(error, EmptyHeading) # {}

-----------------------------------------------------------------------------
(* C7 *)

\* the thrown message is the public validator's, or the secret validator's
IsClientError(lines) == lines # << >> /\ lines[1] = << CrossMark, Marker, "!" >>
IsServerError(lines) == lines # << >> /\ lines[1] = << CrossMark, "Server ", Marker, "!" >>

\* C7: where secrets are reachable, validateServerEnv fails iff some secret name
\* is absent or blank; its missing and empty lists are the absent and the blank
\* secret names in the order of requiredServerVars; on success it returns
\* exactly the 5 secret names bound to their source values.
C7_ServerClassification ==
    (~hasWindow /\ runs.server > 0) =>
        LET absent == AbsentIn(sourceAtLoad, requiredServerVars)
            blank == BlankIn(sourceAtLoad, requiredServerVars)
        IN  /\ pc = "fatal" <=> (absent # << >> \/ blank # << >>)
            /\ pc = "fatal" =>
                  /\ IsServerError(error)
                  /\ missing = absent
                  /\ empty = blank
                  /\ DOMAIN serverEnv = {}
            /\ pc # "fatal" =>
                  /\ DOMAIN serverEnv = ServerNames
                  /\ \A n \in ServerNames : serverEnv[n] = sourceAtLoad[n]
                  /\ error = << >>

\* secret validation failed over a missing and an all-whitespace secret
C7_Witness ==
    /\ ~hasWindow
    /\ runs.server > 0
    /\ pc = "fatal"
    /\ missing = << "RECAPTCHA_SECRET_KEY" >>
    /\ empty = << "OPAY_SECRET_KEY" >>
    /\ sourceAtLoad["OPAY_SECRET_KEY"] = << " ", "\t" >>

-----------------------------------------------------------------------------
(* C8 *)

\* C8 as stated: whenever both validations have succeeded, the keys of env are
\* the 17 required names.
C8_SeventeenKeys ==
    envDefined => DOMAIN exports.env = AllNames

\* C8 amended: when both validations succeed where secrets are reachable, the
\* keys of env are exactly the 17 required names; where a window global exists
\* they are exactly the 12 public names. The two lists share no name, and every
\* public name keeps in env the value public validation returned.
C8_MergedKeys ==
    /\ ClientNames \cap ServerNames = {}
    /\ envDefined =>
          /\ DOMAIN exports.env = (IF hasWindow THEN ClientNames ELSE AllNames)
          /\ Cardinality(DOMAIN exports.env) = (IF hasWindow THEN 12 ELSE 17)
          /\ \A n \in ClientNames : exports.env[n] = clientEnv[n]
          /\ \A n \in DOMAIN serverEnv : exports.env[n] = serverEnv[n]

\* both validators ran over their lists and env was built from both results
C8_Witness ==
    /\ envDefined
    /\ ~hasWindow
    /\ DOMAIN serverEnv = ServerNames
    /\ DOMAIN clientEnv = ClientNames

-----------------------------------------------------------------------------
(* C9 *)

\* some name of the list is absent from the source or blank in it
InvalidIn(src, names) == AbsentIn(src, names) # << >> \/ BlankIn(src, names) # << >>

\* C9: secret validation starts only after public validation has returned its
\* mapping; when public validation has failed, the error is the public one, it
\* lists no secret name, secret validation has not been started and no secret
\* name has been read, also when a secret name is invalid too.
C9_PublicFirst ==
    /\ (runs.server > 0 \/ reads \cap ServerNames # {}) =>
          /\ runs.client = 1
          /\ DOMAIN clientEnv = ClientNames
          /\ ~InvalidIn(sourceAtLoad, requiredClientVars)
    /\ (runs.client > 0 /\ InvalidIn(sourceAtLoad, requiredClientVars)) =>
          /\ pc = "fatal"
          /\ IsClientError(error)
          /\ ~IsServerError(error)
          /\ Range(missing) \cup Range(empty) \subseteq ClientNames
          /\ \A i \in DOMAIN error :
                IsBullet(error[i]) => error[i][2] \notin ServerNames
          /\ runs.server = 0
          /\ reads \cap ServerNames = {}

\* initialisation failed where a public and a secret name were both invalid
C9_Witness ==
    /\ ~hasWindow
    /\ pc = "fatal"
    /\ InvalidIn(sourceAtLoad, requiredClientVars)
    /\ InvalidIn(sourceAtLoad, requiredServerVars)

-----------------------------------------------------------------------------
(* C10 *)

\* the state of the module: uninitialized, validated or fatal
moduleState ==
    IF pc = "fatal" THEN "fatal"
    ELSE IF pc = "validated" THEN "validated"
    ELSE "uninitialized"

\* C10: the module state changes only from uninitialized, to validated or to
\* fatal; each validator is started at most once and once the state is final
\* none is started again; in the fatal state no export is defined, and in the
\* validated state env and the three flags all are.
C10_SingleTransition ==
    /\ [](/\ runs.client <= 1
          /\ runs.server <= 1
          /\ moduleState # "uninitialized" => runs.client = 1
          /\ moduleState = "validated" => runs.server = 1
          /\ moduleState = "fatal" => DOMAIN exports = {}
          /\ moduleState = "uninitialized" => DOMAIN exports = {}
          /\ moduleState = "validated" =>
                DOMAIN exports = { "env", "isProduction", "isDevelopment", "isStaging" })
    /\ [][/\ moduleState' # moduleState =>
                (moduleState = "uninitialized" /\ moduleState' \in { "validated", "fatal" })
          /\ moduleState # "uninitialized" =>
                (runs' = runs /\ reads' = reads /\ exports' = exports /\ error' = error)
         ]_vars

\* a fatal state reached by the secret validator, after public validation passed
C10_Witness ==
    /\ moduleState = "fatal"
    /\ runs.client = 1
    /\ runs.server = 1
    /\ DOMAIN clientEnv = ClientNames

-----------------------------------------------------------------------------
(* C11 *)

\* the tier flags that are true
TrueFlags == { f \in { "isProduction", "isDevelopment", "isStaging" } : exports[f] }

\* C11: in every validated state at most one of isProduction, isDevelopment and
\* isStaging is true; when the source's NEXT_PUBLIC_APP_ENV is exactly one of
\* the literals development, staging, production, the flag of that literal is
\* the one that is true.
C11_TierFlags ==
    envDefined =>
        LET tier == sourceAtLoad["NEXT_PUBLIC_APP_ENV"] IN
        /\ Cardinality(TrueFlags) <= 1
        /\ tier = << "production" >> => TrueFlags = { "isProduction" }
        /\ tier = << "development" >> => TrueFlags = { "isDevelopment" }
        /\ tier = << "staging" >> => TrueFlags = { "isStaging" }

\* initialisation succeeded with the staging tier and only isStaging is true
C11_Witness ==
    /\ envDefined
    /\ sourceAtLoad["NEXT_PUBLIC_APP_ENV"] = << "staging" >>
    /\ exports.isStaging
    /\ ~exports.isProduction
    /\ ~exports.isDevelopment

-----------------------------------------------------------------------------
(* C12 *)

\* C12: the message of every error validation raises, public or secret and
\* whatever its missing and empty lists, contains the marker; the display and
\* the boundary take an error for a configuration error iff its message
\* contains the marker, so a validation error given to them gets the
\* "Environment Configuration Required" screen and the banner, never the
\* "Application Error" screen.
C12_MarkerSelectsScreen ==
    /\ pc = "fatal" =>
          /\ includes(error, Marker)
          /\ EnvErrorDisplay(error) = "Environment Configuration Required"
          /\ componentDidCatch(error)
          /\ render(getDerivedStateFromError(error)) # "Application Error"
    /\ boundary.hasError =>
          /\ screen = "Environment Configuration Required"
                <=> includes(boundary.error, Marker)
          /\ screen = "Application Error" <=> ~includes(boundary.error, Marker)
          /\ banner <=> includes(boundary.error, Marker)
          /\ (IsClientError(boundary.error) \/ IsServerError(boundary.error))
                => screen = "Environment Configuration Required"

\* secret validation failed with a missing and an empty name
C12_Witness ==
    /\ pc = "fatal"
    /\ IsServerError(error)
    /\ missing # << >>
    /\ empty # << >>

-----------------------------------------------------------------------------
(* C13 *)

\* C13: in the load order of the root layout no application module reads a
\* configuration value before validateEnv has completed, so every read an
\* application module makes happens in the validated state; and application
\* content is on screen only if validation passed.
C13_ValidationFirst ==
    /\ \A r \in appReads : r.envState = "validated"
    /\ screen = "children" => pc = "validated"

-----------------------------------------------------------------------------
(* C14 *)

\* the layout has nothing left to do
LayoutAtRest == ~ENABLED NextLayout

\* C14: an execution in which validateEnv throws while the layout imports the
\* env module ends with the boundary holding that error and the error screen
\* rendered: where the module is fatal and the layout has nothing left to do,
\* the boundary has caught the validation error and shows the configuration
\* screen.
C14_BoundaryCatchesImportError ==
    (pc = "fatal" /\ LayoutAtRest) =>
        /\ boundary.hasError
        /\ boundary.error = error
        /\ screen = "Environment Configuration Required"

-----------------------------------------------------------------------------
(* C15 *)

\* C15: in every validated state, if isServer() is true in the context the
\* module was initialised in, all 5 secret names are keys of env with non-blank
\* values, and if it is false no secret name is a key of env; isServer() is
\* the negation of the test that makes validateServerEnv return early.
C15_IsServerGatesSecrets ==
    /\ isServer <=> ~skipsServerValidation(hasWindow)
    /\ envDefined =>
          IF isServer
          THEN \A n \in ServerNames :
                  n \in DOMAIN exports.env /\ ~IsBlank(exports.env[n])
          ELSE DOMAIN exports.env \cap ServerNames = {}

\* validated where isServer() is false although the source defines a secret
C15_Witness ==
    /\ envDefined
    /\ ~isServer
    /\ \E n \in ServerNames : n \in DOMAIN sourceAtLoad /\ ~IsBlank(sourceAtLoad[n])

-----------------------------------------------------------------------------
(* C16 *)

\* C16: once env and the three tier flags exist, no step changes any of them:
\* no operation of the module, and no later change of the configuration source
\* (a variable added, removed or changed).
C16_ExportsFrozen ==
    [][envDefined =>
          /\ exports'.env = exports.env
          /\ exports'.isProduction = exports.isProduction
          /\ exports'.isDevelopment = exports.isDevelopment
          /\ exports'.isStaging = exports.isStaging]_vars

\* the source's tier was changed or removed after initialisation and env still
\* holds the value it was built with
C16_Witness ==
    /\ envDefined
    /\ processEnv # sourceAtLoad
    /\ exports.env["NEXT_PUBLIC_APP_ENV"] = sourceAtLoad["NEXT_PUBLIC_APP_ENV"]
    /\ IF "NEXT_PUBLIC_APP_ENV" \in DOMAIN processEnv
       THEN processEnv["NEXT_PUBLIC_APP_ENV"] # exports.env["NEXT_PUBLIC_APP_ENV"]
       ELSE TRUE

-----------------------------------------------------------------------------
(* C17 *)

\* a step of validateClientEnv, validateServerEnv or validateEnv
ValidationStep == runs' # runs \/ pc' # pc \/ DOMAIN exports' # DOMAIN exports

\* C17: validation never writes to the configuration source: across every
\* step of validateClientEnv, validateServerEnv and validateEnv, successful or
\* failed, each key of the source keeps its value or its absence; so until
\* validation has succeeded the source is the one the module was loaded with.
C17_SourceUntouched ==
    /\ [][ValidationStep => processEnv' = processEnv]_vars
    /\ [](pc # "validated" => processEnv = sourceAtLoad)

\* public validation has failed on an absent name and the name is still absent
C17_Witness ==
    /\ pc = "fatal"
    /\ missing # << >>
    /\ \A i \in DOMAIN missing : missing[i] \notin DOMAIN processEnv

-----------------------------------------------------------------------------
(* C18 *)

\* the validator group an error message belongs to
Group(lines) ==
    IF IsClientError(lines) THEN "public"
    ELSE IF IsServerError(lines) THEN "secret"
    ELSE "none"

-----------------------------------------------------------------------------
(* C19 *)

\* the two lines only the secret validator writes
PrefixWarning ==
    << WarningSign, "WARNING: These variables should NEVER be prefixed with NEXT_PUBLIC_" >>
PrefixReminder == << "   (Do NOT add NEXT_PUBLIC_ prefix to these!)" >>

\* the first line of a message that equals the given line, 0 when none does
FirstAt(lines, line) ==
    IF HeadingAt(lines, line) = {} THEN 0
    ELSE CHOOSE i \in HeadingAt(lines, line) : \A j \in HeadingAt(lines, line) : i <= j

\* header, then the missing section if any, then the empty section if any,
\* then the remediation steps, which close the message
SharedStructure(lines) ==
    LET fix == FirstAt(lines, << "How to fix:" >>)
        mis == FirstAt(lines, MissingHeading)
        emp == FirstAt(lines, EmptyHeading)
    IN  /\ IsClientError(lines) \/ IsServerError(lines)
        /\ Cardinality(HeadingAt(lines, << "How to fix:" >>)) = 1
        /\ mis # 0 => (1 < mis /\ mis < fix)
        /\ emp # 0 => (1 < emp /\ emp < fix)
        /\ (mis # 0 /\ emp # 0) => mis < emp
        /\ \A i \in DOMAIN lines : IsBullet(lines[i]) => i < fix
        /\ \E i \in DOMAIN lines : i > fix /\ lines[i] = << "3. Restart your development server" >>
        /\ lines[Len(lines)] = << "See .env.example for guidance on where to get these values." >>

\* C19: a failure message of either validator has the header, the optional
\* missing section, the optional empty section and the remediation steps, in
\* that order; the secret validator's message always also holds the warning
\* never to prefix these variables with NEXT_PUBLIC_, above the sections, and
\* the reminder not to add the prefix, among the remediation steps; the public
\* validator's message holds neither.
C19_SecretWarning ==
    pc = "fatal" =>
        /\ SharedStructure(error)
        /\ IsServerError(error) =>
              /\ Cardinality(HeadingAt(error, PrefixWarning)) = 1
              /\ Cardinality(HeadingAt(error, PrefixReminder)) = 1
              /\ FirstAt(error, PrefixWarning) < FirstAt(error, << "How to fix:" >>)
              /\ FirstAt(error, MissingHeading) # 0 =>
                    FirstAt(error, PrefixWarning) < FirstAt(error, MissingHeading)
              /\ FirstAt(error, EmptyHeading) # 0 =>
                    FirstAt(error, PrefixWarning) < FirstAt(error, EmptyHeading)
              /\ FirstAt(error, PrefixReminder) > FirstAt(error, << "How to fix:" >>)
        /\ IsClientError(error) =>
              /\ HeadingAt(error, PrefixWarning) = {}
              /\ HeadingAt(error, PrefixReminder) = {}
              /\ ~includes(error, PrefixWarning[2])
              /\ ~includes(error, PrefixReminder[1])

\* secret validation failed with only an empty section in its message
C19_Witness ==
    /\ pc = "fatal"
    /\ IsServerError(error)
    /\ missing = << >>
    /\ empty # << >>
    /\ PrefixWarning \in Range(error)
    /\ PrefixReminder \in Range(error)

-----------------------------------------------------------------------------
(* C20 *)

\* the source defines the 12 public names with non-blank values, the tier
\* production and no secret name, and the context has a window global
BrowserProductionSource ==
    /\ hasWindow
    /\ DOMAIN sourceAtLoad = ClientNames
    /\ \A n \in ClientNames : ~IsBlank(sourceAtLoad[n])
    /\ sourceAtLoad["NEXT_PUBLIC_APP_ENV"] = << "production" >>

\* a step of the module's initialisation can be taken
InitialisationCanStep ==
    ENABLED (CallValidateClientEnv \/ CallValidateServerEnv \/ ExportEnv)

\* C20: with all 12 public names non-blank, NEXT_PUBLIC_APP_ENV=production and
\* no secret name, where secrets are unreachable, initialisation succeeds: it
\* never fails and never stops short of the validated state, and there env
\* has exactly the 12 public names as keys, isProduction is true and
\* isDevelopment and isStaging are false.
C20_BrowserProduction ==
    BrowserProductionSource =>
        /\ pc # "fatal"
        /\ pc # "validated" => InitialisationCanStep
        /\ pc = "validated" =>
              /\ DOMAIN exports.env = ClientNames
              /\ Cardinality(DOMAIN exports.env) = 12
              /\ \A n \in ClientNames : exports.env[n] = sourceAtLoad[n]
              /\ exports.isProduction
              /\ ~exports.isDevelopment
              /\ ~exports.isStaging

\* the scenario has been initialised
C20_Witness ==
    /\ BrowserProductionSource
    /\ pc = "validated"
    /\ envDefined
    /\ exports.isProduction

-----------------------------------------------------------------------------
(* C21 *)

\* the three literals of the tier enumeration
TierLiterals == { << "development" >>, << "staging" >>, << "production" >> }

\* every name validation covers in this context is defined and non-blank, and
\* the tier is none of the three literals
ValidSourceOtherTier ==
    /\ \A n \in ValidatedNames : n \in DOMAIN sourceAtLoad /\ ~IsBlank(sourceAtLoad[n])
    /\ sourceAtLoad["NEXT_PUBLIC_APP_ENV"] \notin TierLiterals

\* C21: validation does not test NEXT_PUBLIC_APP_ENV against the tier
\* enumeration: with every required name valid and a non-blank tier other
\* than development, staging and production, initialisation never fails and
\* never stops short of the validated state, and there env carries the
\* source's tier string unchanged and isDevelopment, isStaging and
\* isProduction are all false.
C21_TierUnchecked ==
    ValidSourceOtherTier =>
        /\ pc # "fatal"
        /\ pc # "validated" => InitialisationCanStep
        /\ pc = "validated" =>
              /\ exports.env["NEXT_PUBLIC_APP_ENV"] = sourceAtLoad["NEXT_PUBLIC_APP_ENV"]
              /\ ~exports.isDevelopment
              /\ ~exports.isStaging
              /\ ~exports.isProduction

\* initialised with the tier production wrapped in whitespace: stored as it
\* is, and no flag is true
C21_Witness ==
    /\ envDefined
    /\ ValidSourceOtherTier
    /\ exports.env["NEXT_PUBLIC_APP_ENV"] = << " ", "production", "\t" >>
    /\ TrueFlags = {}

-----------------------------------------------------------------------------
(* C22 *)

\* a step that is a page reload: the component's lifetime ends
PageReloaded == hasWindow /\ ~boundary'.mounted /\ layoutPos' = 1

\* C22: the boundary starts with hasError false and a null error and renders
\* its children; once it has captured an error it holds hasError true with
\* that error and renders EnvErrorDisplay for it; no step of the component
\* resets hasError or replaces the error, so the children are not rendered
\* again while the component lives: only a page reload leaves the error screen.
C22_ErrorIsAbsorbing ==
    /\ [][(~boundary.mounted /\ boundary'.mounted) =>
            /\ ~boundary'.hasError
            /\ boundary'.error = << >>
            /\ screen' = "children"]_vars
    /\ []((boundary.mounted /\ ~boundary.hasError) =>
            /\ boundary.error = << >>
            /\ screen = "children")
    /\ [][(boundary.mounted /\ ~boundary.hasError /\ boundary'.hasError) =>
            /\ boundary'.error \in RenderErrors
            /\ screen' = EnvErrorDisplay(boundary'.error)]_vars
    /\ [](boundary.hasError =>
            /\ boundary.mounted
            /\ boundary.error # << >>
            /\ screen = EnvErrorDisplay(boundary.error)
            /\ screen # "children")
    /\ [][boundary.hasError =>
            \/ /\ boundary'.hasError
               /\ boundary'.error = boundary.error
               /\ screen' = screen
            \/ PageReloaded]_vars

\* the boundary holds a captured validation error and shows the configuration screen
C22_Witness ==
    /\ boundary.mounted
    /\ boundary.hasError
    /\ IsClientError(boundary.error)
    /\ screen = "Environment Configuration Required"
    /\ banner

-----------------------------------------------------------------------------
(* C23 *)

\* C23: for the missing and empty lists of a failed public validation, which
\* are never both empty, the demo message the test script builds from the
\* same two lists is line for line the message validateClientEnv has thrown:
\* the same header, each section iff its list is non-empty, each name as
\* `  - <name>` in list order, and the same remediation text.
C23_DemoMatchesError ==
    (pc = "fatal" /\ IsClientError(error)) =>
        /\ missing # << >> \/ empty # << >>
        /\ Len(demoMessage(missing, empty)) = Len(error)
        /\ \A i \in DOMAIN error : demoMessage(missing, empty)[i] = error[i]
        /\ demoMessage(missing, empty) = clientErrorParts(missing, empty)

\* public validation failed with a missing and an empty name, and the demo
\* message for the two lists has both sections
C23_Witness ==
    /\ pc = "fatal"
    /\ IsClientError(error)
    /\ missing # << >>
    /\ empty # << >>
    /\ HeadingAt(demoMessage(missing, empty), MissingHeading) # {}
    /\ HeadingAt(demoMessage(missing, empty), EmptyHeading) # {}

====
